---------------------------- MODULE Spec2Model ----------------------------
(***************************************************************************)
(* A model of the WoW addon version bumper: the catalog of .toc files      *)
(* (TocManager), the version calculation (VersionManager), the command     *)
(* line (CLI.run, CLI.parseBumpArgs), the bump workflow                    *)
(* (VersionBumper.bumpVersion, updateFiles) and the release recorder       *)
(* (GitManager.createGitTag, runCommandInDir).                             *)
(*                                                                         *)
(* Every JavaScript string is a sequence of one-character strings, so that *)
(* split, startsWith, the regular expressions, Number and the semver       *)
(* parse/format pair are computed character by character.                  *)
(***************************************************************************)
EXTENDS Integers, Sequences, FiniteSets, TLC

(***************************************************************************)
(* Bounds of the model.                                                    *)
(***************************************************************************)
\* invocations of the program in one behaviour
MaxRuns == 2
\* arguments after the word bump
MaxArgs == 3
\* arguments after the word bump when processes follow one another
MaxRunArgs == 2
\* writes and commands that fail in one process
MaxFaults == 1
\* records of a catalog handed to getNextVersion in SpecVersion
MaxRecords == 3
MaxRewrites == 2

(***************************************************************************)
(* Strings.                                                                *)
(***************************************************************************)
Digits == {"0", "1", "2", "3", "4", "5", "6", "7", "8", "9"}

DigitVal(c) ==
    CASE c = "0" -> 0 [] c = "1" -> 1 [] c = "2" -> 2 [] c = "3" -> 3
      [] c = "4" -> 4 [] c = "5" -> 5 [] c = "6" -> 6 [] c = "7" -> 7
      [] c = "8" -> 8 [] c = "9" -> 9

DigitChar(d) ==
    CASE d = 0 -> "0" [] d = 1 -> "1" [] d = 2 -> "2" [] d = 3 -> "3"
      [] d = 4 -> "4" [] d = 5 -> "5" [] d = 6 -> "6" [] d = 7 -> "7"
      [] d = 8 -> "8" [] d = 9 -> "9"

\* String.prototype.startsWith
StartsWith(s, p) ==
    /\ Len(s) >= Len(p)
    /\ SubSeq(s, 1, Len(p)) = p

\* String.prototype.endsWith
EndsWith(s, p) ==
    /\ Len(s) >= Len(p)
    /\ SubSeq(s, Len(s) - Len(p) + 1, Len(s)) = p

\* Array.prototype.includes
Includes(arr, x) == \E i \in 1..Len(arr) : arr[i] = x

\* String.prototype.split(".") : the pieces between the dots
RECURSIVE SplitDots(_)
SplitDots(s) ==
    IF \A i \in 1..Len(s) : s[i] # "."
    THEN <<s>>
    ELSE LET k == CHOOSE i \in 1..Len(s) :
                     /\ s[i] = "."
                     /\ \A j \in 1..(i - 1) : s[j] # "."
         IN <<SubSeq(s, 1, k - 1)>> \o SplitDots(SubSeq(s, k + 1, Len(s)))

\* the regular expression \d+ on a whole piece
IsDigits(s) == Len(s) > 0 /\ \A i \in 1..Len(s) : s[i] \in Digits

\* the value of a run of decimal digits
RECURSIVE DigitsValue(_)
DigitsValue(s) ==
    IF s = <<>> THEN 0
    ELSE 10 * DigitsValue(SubSeq(s, 1, Len(s) - 1)) + DigitVal(s[Len(s)])

\* the decimal digits of a natural number, as JavaScript prints it
RECURSIVE NatToStr(_)
NatToStr(n) ==
    IF n < 10 THEN <<DigitChar(n)>>
    ELSE NatToStr(n \div 10) \o <<DigitChar(n % 10)>>

\* Number(piece) is NaN for a piece that is not a number
NaN == -1

\* Number(piece): "" is 0, decimal digits are their value, anything else NaN
Number(s) ==
    IF s = <<>> THEN 0
    ELSE IF IsDigits(s) THEN DigitsValue(s)
    ELSE NaN

\* /^\d+\.\d+\.\d+$/.test(s)
IsVersionString(s) ==
    LET parts == SplitDots(s)
    IN /\ Len(parts) = 3
       /\ \A i \in 1..3 : IsDigits(parts[i])

(***************************************************************************)
(* @std/semver as getNextVersion uses it.  The version strings of the      *)
(* model are written with digits, dots and "@" only, and on those parse    *)
(* accepts exactly major.minor.patch with no leading zero; it throws a     *)
(* TypeError on every other string.                                        *)
(***************************************************************************)
IsNumericIdentifier(s) == IsDigits(s) /\ (Len(s) = 1 \/ s[1] # "0")

\* parse(value): [ok |-> FALSE] stands for the TypeError
SemverParse(s) ==
    LET parts == SplitDots(s)
    IN IF Len(parts) = 3 /\ \A i \in 1..3 : IsNumericIdentifier(parts[i])
       THEN [ok |-> TRUE, major |-> DigitsValue(parts[1]),
             minor |-> DigitsValue(parts[2]), patch |-> DigitsValue(parts[3])]
       ELSE [ok |-> FALSE, major |-> 0, minor |-> 0, patch |-> 0]

\* increment(version, release) of a version without prerelease
SemverIncrement(v, bumpType) ==
    CASE bumpType = "major" -> [v EXCEPT !.major = v.major + 1, !.minor = 0, !.patch = 0]
      [] bumpType = "minor" -> [v EXCEPT !.minor = v.minor + 1, !.patch = 0]
      [] OTHER -> [v EXCEPT !.patch = v.patch + 1]

\* format(version)
SemverFormat(v) ==
    NatToStr(v.major) \o <<".">> \o NatToStr(v.minor) \o <<".">> \o NatToStr(v.patch)

(***************************************************************************)
(* VersionManager.getNextVersion.  A record of the catalog (TocFile) is    *)
(* [path, content, version, addonName].                                    *)
(***************************************************************************)
\* parts[i] || 0 : a missing piece, NaN and 0 all give 0
PartOrZero(parts, i) ==
    IF i > Len(parts) THEN 0
    ELSE IF Number(parts[i]) = NaN THEN 0 ELSE Number(parts[i])

\* the object the map callback builds for one file
VersionEntry(file) ==
    LET parts == SplitDots(file.version)
    IN [major |-> PartOrZero(parts, 1), minor |-> PartOrZero(parts, 2),
        patch |-> PartOrZero(parts, 3), original |-> file.version,
        addonName |-> file.addonName]

\* s < t as JavaScript compares strings
RECURSIVE StrLess(_, _)
StrLess(s, t) ==
    IF t = <<>> THEN FALSE
    ELSE IF s = <<>> THEN TRUE
    ELSE IF Head(s) = Head(t) THEN StrLess(Tail(s), Tail(t))
    ELSE IF Head(s) = "." THEN TRUE
    ELSE IF Head(t) = "." THEN FALSE
    ELSE IF Head(s) \in Digits /\ Head(t) \in Digits THEN DigitVal(Head(s)) < DigitVal(Head(t))
    ELSE Head(s) \in Digits

\* the reducer compared the version strings
CurrentWinsByString(max, current) == StrLess(max.original, current.original)

\* the reduce callback: TRUE when it returns current, FALSE when it returns max
CurrentWins(max, current) ==
    IF current.major > max.major THEN TRUE
    ELSE IF current.major < max.major THEN FALSE
    ELSE IF current.minor > max.minor THEN TRUE
    ELSE IF current.minor < max.minor THEN FALSE
    ELSE current.patch > max.patch

\* versions.reduce(callback) without an initial value: the position of the
\* entry it returns, scanning from the first entry
RECURSIVE ReduceFrom(_, _, _)
ReduceFrom(versions, i, max) ==
    IF i > Len(versions) THEN max
    ELSE IF CurrentWins(versions[max], versions[i])
         THEN ReduceFrom(versions, i + 1, i)
         ELSE ReduceFrom(versions, i + 1, max)

HighestIndex(versions) == ReduceFrom(versions, 2, 1)

\* a lookup that returns the files of every addon
getTocFilesForAddonUnfiltered(files, addonName) == files

\* TocManager.getTocFilesForAddon
getTocFilesForAddon(files, addonName) ==
    SelectSeq(files, LAMBDA f : f.addonName = addonName)

\* undefined, null and "" are the empty string: the code only tests them for truth
None == <<>>

\* the files getNextVersion looks at
filesToCheck(files, targetAddon) ==
    IF targetAddon # None THEN getTocFilesForAddon(files, targetAddon) ELSE files

\* a next version that is a patch bump whatever the bump kind
nextVersionOfAlwaysPatch(highest, bumpType) ==
    LET currentSemver == SemverParse(highest.original)
    IN IF ~currentSemver.ok THEN [threw |-> TRUE, value |-> None]
       ELSE [threw |-> FALSE,
             value |-> SemverFormat(SemverIncrement(currentSemver, "patch"))]

\* parse(highest.original), increment(currentSemver, bumpType), format(nextSemver)
nextVersionOf(highest, bumpType) ==
    LET currentSemver == SemverParse(highest.original)
    IN IF ~currentSemver.ok THEN [threw |-> TRUE, value |-> None]
       ELSE [threw |-> FALSE,
             value |-> SemverFormat(SemverIncrement(currentSemver, bumpType))]

\* getNextVersion: [threw, value]; value None is the null result
getNextVersion(files, targetAddon, bumpType) ==
    IF Len(files) = 0 THEN [threw |-> FALSE, value |-> None]
    ELSE LET check == filesToCheck(files, targetAddon)
         IN IF Len(check) = 0 THEN [threw |-> FALSE, value |-> None]
            ELSE LET versions == [i \in 1..Len(check) |-> VersionEntry(check[i])]
                     highest == versions[HighestIndex(versions)]
                 IN nextVersionOf(highest, bumpType)

(***************************************************************************)
(* The words of the command line, the addon names and the file names.      *)
(***************************************************************************)
Alpha == <<"A", "l", "p", "h", "a">>
Beta == <<"B", "e", "t", "a">>
Gamma == <<"G", "a", "m", "m", "a">>
CmdShow == <<"s", "h", "o", "w">>
CmdList == <<"l", "i", "s", "t">>
CmdWhitelist == <<"w", "h", "i", "t", "e", "l", "i", "s", "t">>
CmdConfig == <<"c", "o", "n", "f", "i", "g">>
CmdBump == <<"b", "u", "m", "p">>
CmdUnknown == <<"f", "r", "o", "b">>
WordAll == <<"a", "l", "l">>
WordAuto == <<"a", "u", "t", "o">>
DashDash == <<"-", "-">>
FlagMajor == <<"-", "-", "m", "a", "j", "o", "r">>
FlagMinor == <<"-", "-", "m", "i", "n", "o", "r">>
FlagPatch == <<"-", "-", "p", "a", "t", "c", "h">>
FlagDry == <<"-", "-", "d", "r", "y">>
FlagVerbose == <<"-", "-", "v", "e", "r", "b", "o", "s", "e">>
DotToc == <<".", "t", "o", "c">>
V142 == <<"1", ".", "4", ".", "2">>
V1100 == <<"1", ".", "1", "0", ".", "0">>
V123 == <<"1", ".", "2", ".", "3">>
V120 == <<"1", ".", "2", ".", "0">>
V12 == <<"1", ".", "2">>
V200 == <<"2", ".", "0", ".", "0">>
V210 == <<"2", ".", "1", ".", "0">>
V21 == <<"2", ".", "1">>
VAt == <<"@">>

(***************************************************************************)
(* TocManager: the content of a file is its lines, each [text, eol]; the   *)
(* text holds no line terminator.                                          *)
(***************************************************************************)
VersionPrefix == <<"#", "#", " ", "V", "e", "r", "s", "i", "o", "n", ":", " ">>

\* one line against /^## Version: (.+)$/m
LineMatches(line) ==
    /\ StartsWith(line.text, VersionPrefix)
    /\ Len(line.text) > Len(VersionPrefix)

\* content.match(tocPattern): the first matching line, 0 for no match
MatchIndex(content) ==
    IF \E i \in 1..Len(content) : LineMatches(content[i])
    THEN CHOOSE i \in 1..Len(content) :
             /\ LineMatches(content[i])
             /\ \A j \in 1..(i - 1) : ~LineMatches(content[j])
    ELSE 0

\* match[1]
MatchedVersion(content) ==
    LET line == content[MatchIndex(content)]
    IN SubSeq(line.text, Len(VersionPrefix) + 1, Len(line.text))

\* String.prototype.replace reads its replacement string for patterns: "$$" is
\* "$", "$&" the matched text, "$1" and "$01" the capture, and a "$" before
\* anything else of the model's strings stands for itself (the pattern has one
\* group and none is named).
RECURSIVE Substitute(_, _, _)
Substitute(replacement, matched, capture) ==
    LET n == Len(replacement)
        After(k) == Substitute(SubSeq(replacement, k, n), matched, capture)
    IN IF n = 0 THEN <<>>
       ELSE IF replacement[1] # "$" \/ n = 1 THEN <<replacement[1]>> \o After(2)
       ELSE IF replacement[2] = "$" THEN <<"$">> \o After(3)
       ELSE IF replacement[2] = "&" THEN matched \o After(3)
       ELSE IF replacement[2] = "1" THEN capture \o After(3)
       ELSE IF replacement[2] = "0" /\ n >= 3 /\ replacement[3] = "1"
            THEN capture \o After(4)
       ELSE <<"$">> \o After(2)

\* TocManager.updateVersionInContent
updateVersionInContent(content, newVersion) ==
    LET i == MatchIndex(content)
    IN IF i = 0 THEN content
       ELSE [content EXCEPT ![i].text =
                Substitute(VersionPrefix \o newVersion, content[i].text,
                           MatchedVersion(content))]

LF == <<"\n">>
TitleLine == [text |-> <<"#", "#", " ", "T">>, eol |-> LF]
VersionLine(v) == [text |-> VersionPrefix \o v, eol |-> LF]

\* a .toc file declaring version v, and one declaring none
TocContent(v) == <<TitleLine, VersionLine(v), [text |-> <<"x">>, eol |-> <<>>]>>
NoVersionContent == <<TitleLine>>

(***************************************************************************)
(* The addons directory.  A path is <<directory, file name>>.              *)
(***************************************************************************)
FileA == <<"A", ".", "t", "o", "c">>
FileAC == <<"A", "C", ".", "t", "o", "c">>
FileB == <<"B", ".", "t", "o", "c">>
FileBN == <<"B", "N", ".", "t", "o", "c">>
FileG == <<"G", ".", "t", "o", "c">>
FileNotes == <<"n", ".", "t", "x", "t">>

\* Deno.readDirSync(addonsDirectory), in the order the file system gives
RootEntries ==
    << [name |-> Alpha, isDirectory |-> TRUE],
       [name |-> Beta, isDirectory |-> TRUE],
       [name |-> Gamma, isDirectory |-> TRUE],
       [name |-> FileNotes, isDirectory |-> FALSE] >>

\* Deno.readDirSync(addonPath)
DirEntries(dir) ==
    IF dir = Alpha THEN <<FileA, FileNotes, FileAC>>
    ELSE IF dir = Beta THEN <<FileB, FileBN>>
    ELSE IF dir = Gamma THEN <<FileG>>
    ELSE <<>>

Paths ==
    { <<Alpha, FileA>>, <<Alpha, FileNotes>>, <<Alpha, FileAC>>,
      <<Beta, FileB>>, <<Beta, FileBN>>, <<Gamma, FileG>> }

\* the directories of the root that the scan keeps, ignoring the whitelist
addonDirsUnfiltered(wl) ==
    LET dirs == SelectSeq(RootEntries, LAMBDA e : e.isDirectory)
    IN [i \in 1..Len(dirs) |-> dirs[i].name]

\* allAddonDirs.filter((dir) => whitelistedAddons.includes(dir))
addonDirs(wl) ==
    LET dirs == SelectSeq(RootEntries, LAMBDA e : e.isDirectory)
        allAddonDirs == [i \in 1..Len(dirs) |-> dirs[i].name]
    IN SelectSeq(allAddonDirs, LAMBDA dir : Includes(wl, dir))

\* the body of the loop over addonDirs: the records of one directory
LoadDir(dir, d) ==
    LET tocNames == SelectSeq(DirEntries(dir), LAMBDA n : EndsWith(n, DotToc))
        recs == [i \in 1..Len(tocNames) |->
                    LET content == d[<<dir, tocNames[i]>>]
                    IN [path |-> <<dir, tocNames[i]>>,
                        content |-> content,
                        version |-> IF MatchIndex(content) = 0 THEN None
                                    ELSE MatchedVersion(content),
                        addonName |-> dir]]
    IN SelectSeq(recs, LAMBDA r : MatchIndex(r.content) # 0)

RECURSIVE LoadDirs(_, _)
LoadDirs(dirs, d) ==
    IF Len(dirs) = 0 THEN <<>>
    ELSE LoadDir(dirs[1], d) \o LoadDirs(SubSeq(dirs, 2, Len(dirs)), d)

\* TocManager.loadAllTocFiles with a readable root: the catalog
loadAllTocFiles(wl, d) == LoadDirs(addonDirs(wl), d)

(***************************************************************************)
(* CLI.parseBumpArgs.                                                      *)
(***************************************************************************)
StrBump == <<"B", "u", "m", "p">>
StrVersionTo == <<" ", "v", "e", "r", "s", "i", "o", "n", " ", "t", "o", " ">>

\* `Bump ${addon} version to ${version}` or `Bump version to ${version}`
BumpMessage(addon, version) ==
    IF addon # None THEN StrBump \o <<" ">> \o addon \o StrVersionTo \o version
    ELSE StrBump \o StrVersionTo \o version

\* the bump kind read from the flags, wherever they stand
bumpTypeOf(a) ==
    IF Includes(a, FlagMajor) THEN "major"
    ELSE IF Includes(a, FlagMinor) THEN "minor"
    ELSE IF Includes(a, FlagPatch) THEN "patch"
    ELSE "patch"

\* the returned options object
MakeOptions(a, newVersion, targetAddon) ==
    [newVersion |-> IF newVersion = WordAuto THEN None ELSE newVersion,
     dryRun |-> Includes(a, FlagDry),
     targetAddon |-> targetAddon,
     bumpType |-> bumpTypeOf(a),
     commitMessage |-> BumpMessage(targetAddon, newVersion),
     verbose |-> Includes(a, FlagVerbose)]

NoOptions == MakeOptions(<<>>, None, None)

\* the outcome of parseBumpArgs when it throws
ParseThrows == [threw |-> TRUE, options |-> NoOptions]

\* the auto-increment branches: getNextVersion, then the null check
ParseAuto(a, files, targetAddon) ==
    LET next == getNextVersion(files, targetAddon, bumpTypeOf(a))
    IN IF next.threw \/ next.value = None THEN ParseThrows
       ELSE [threw |-> FALSE, options |-> MakeOptions(a, next.value, targetAddon)]

\* a parser that skips the flags before it reads the positions
parseBumpArgsAnywhere(a, files) ==
    LET w == SelectSeq(a, LAMBDA x : ~StartsWith(x, DashDash))
    IN IF Len(w) = 0 THEN ParseAuto(a, files, None)
       ELSE IF IsVersionString(w[1])
       THEN [threw |-> FALSE,
             options |-> MakeOptions(a, w[1], IF Len(w) >= 2 THEN w[2] ELSE None)]
       ELSE IF w[1] = WordAll
       THEN [threw |-> FALSE, options |-> MakeOptions(a, WordAuto, None)]
       ELSE IF Len(w) >= 2 /\ IsVersionString(w[2])
       THEN [threw |-> FALSE, options |-> MakeOptions(a, w[2], w[1])]
       ELSE ParseAuto(a, files, w[1])

\* parseBumpArgs(args), args being the words after bump
parseBumpArgs(a, files) ==
    IF Len(a) = 0 THEN ParseAuto(a, files, None)
    ELSE IF IsVersionString(a[1])
    THEN [threw |-> FALSE,
          options |-> MakeOptions(a, a[1],
                         IF Len(a) >= 2 /\ a[2] # None /\ ~StartsWith(a[2], DashDash)
                         THEN a[2] ELSE None)]
    ELSE IF a[1] = WordAll
    THEN [threw |-> FALSE, options |-> MakeOptions(a, WordAuto, None)]
    ELSE IF StartsWith(a[1], DashDash) THEN ParseThrows
    ELSE IF Len(a) >= 2 /\ IsVersionString(a[2])
    THEN [threw |-> FALSE, options |-> MakeOptions(a, a[2], a[1])]
    ELSE ParseAuto(a, files, a[1])

(***************************************************************************)
(* The state: the files and the git repositories outlive a process; the    *)
(* rest is the state of the process that runs, and what it did.            *)
(***************************************************************************)
VARIABLES
    disk,          \* path -> content of the file
    committed,     \* path -> content at HEAD of the addon's repository
    tags,          \* addon -> the tags of its repository
    whitelist,     \* config.whitelistedAddons
    rootReadable,  \* whether Deno.readDirSync(addonsDirectory) succeeds
    runs,          \* processes started so far
    args,          \* Deno.args of the process
    tocFiles,      \* TocManager.tocFiles, the catalog
    options,       \* the VersionBumpOptions of the bump
    pc,            \* where the process stands: [phase, gi, fi]
    ver,           \* the version in use in the loop at pc
    writeLog,      \* the Deno.writeTextFileSync calls of the process
    gitLog,        \* the commands runCommandInDir ran in the process
    calls,         \* the createGitTag calls of the process
    out,           \* what the process reported
    exitCode,      \* the exit status of the process once it is off
    faults,        \* writes and commands that failed in the process
    disk0,         \* the files as they were before the first process
    dryOnly,       \* every process so far was a bump with --dry
    vm,            \* the last getNextVersion call made on its own
    rw             \* the updateVersionInContent calls made on their own

vars == <<disk, committed, tags, whitelist, rootReadable, runs, args, tocFiles,
          options, pc, ver, writeLog, gitLog, calls, out, exitCode, faults,
          disk0, dryOnly, vm, rw>>

Report(kind, data) == [kind |-> kind, data |-> data]

Off == [phase |-> "off", gi |-> 0, fi |-> 0]
At(phase, g, f) == [phase |-> phase, gi |-> g, fi |-> f]

\* a step's effect on the control state: where it goes, the version in
\* use, the exit status and the reports it adds
Goes(pcv, v, reports) ==
    [pc |-> pcv, ver |-> v, exit |-> 0, out |-> reports, calls |-> <<>>]
Exits(code, reports) ==
    [pc |-> Off, ver |-> None, exit |-> code, out |-> reports, calls |-> <<>>]

\* createGitTag(version, commitMessage, targetAddon, dryRun) is entered
Calling(phase, g, v, message, name, dry) ==
    [pc |-> At(phase, g, 0), ver |-> v, exit |-> 0, out |-> <<>>,
     calls |-> <<[version |-> v, commitMessage |-> message, targetAddon |-> name,
                  dryRun |-> dry]>>]

\* run's catch block: report the error, Deno.exit(1)
Caught == Exits(1, <<Report("error", <<>>)>>)

\* the keys of the addonGroups map, in insertion order
RECURSIVE addonGroups(_)
addonGroups(files) ==
    IF Len(files) = 0 THEN <<>>
    ELSE LET rest == addonGroups(SubSeq(files, 1, Len(files) - 1))
             name == files[Len(files)].addonName
         IN IF Includes(rest, name) THEN rest ELSE Append(rest, name)

\* the addons bumpVersion works through: the target, or every group
Groups(opts, files) ==
    IF opts.targetAddon # None THEN <<opts.targetAddon>> ELSE addonGroups(files)

\* the third branch of bumpVersion: no target and no version given
IsAuto(opts) == opts.targetAddon = None /\ opts.newVersion = None

\* the commit message createGitTag is called with for addon name
MessageFor(opts, name, v) ==
    IF opts.targetAddon # None THEN opts.commitMessage ELSE BumpMessage(name, v)

\* `if (dryRun)` at the head of createGitTag: report only, or run git
createGitTagPhase(opts) == IF opts.dryRun THEN "drytag" ELSE "status"

\* a tag loop that reads the files again before it computes a version
TagLoopCatalogReloaded(files) == loadAllTocFiles(whitelist, disk)

\* the records getNextVersion reads in the tag loop: the catalog the
\* constructor loaded, which no write and no later step loads again
TagLoopCatalog(files) == files

\* the tag loop from group g on: the next createGitTag call, or the end
RECURSIVE StartTag(_, _, _)
StartTag(g, opts, files) ==
    LET groups == Groups(opts, files)
        phase == createGitTagPhase(opts)
    IN IF g > Len(groups) THEN Exits(0, <<>>)
       ELSE IF IsAuto(opts)
       THEN LET next == getNextVersion(TagLoopCatalog(files), groups[g], opts.bumpType)
            IN IF next.threw THEN Caught
               ELSE IF next.value = None THEN StartTag(g + 1, opts, files)
               ELSE Calling(phase, g, next.value,
                            MessageFor(opts, groups[g], next.value), groups[g],
                            opts.dryRun)
       ELSE Calling(phase, g, opts.newVersion,
                    MessageFor(opts, groups[g], opts.newVersion), groups[g],
                    opts.dryRun)

\* the update loop from group g on: the next updateFiles call, or the tag loop
RECURSIVE StartUpdate(_, _, _)
StartUpdate(g, opts, files) ==
    LET groups == Groups(opts, files)
    IN IF g > Len(groups) THEN StartTag(1, opts, files)
       ELSE IF IsAuto(opts)
       THEN LET next == getNextVersion(files, groups[g], opts.bumpType)
            IN IF next.threw THEN Caught
               ELSE IF next.value = None THEN StartUpdate(g + 1, opts, files)
               ELSE Goes(At("update", g, 1), next.value, <<>>)
       ELSE Goes(At("update", g, 1), opts.newVersion, <<>>)

\* bumpVersion up to its first loop
bumpVersion(opts, files) ==
    IF opts.targetAddon # None /\ Len(getTocFilesForAddon(files, opts.targetAddon)) = 0
    THEN Exits(0, <<Report("no-files", <<opts.targetAddon>>)>>)
    ELSE StartUpdate(1, opts, files)

(***************************************************************************)
(* One process: main, the constructors and CLI.run up to the first loop    *)
(* of bumpVersion.                                                         *)
(***************************************************************************)
\* the addon names of the records a show command displays
ShownAddons(a, files) ==
    LET shown == IF Len(a) >= 2 /\ a[2] # None
                 THEN getTocFilesForAddon(files, a[2]) ELSE files
    IN [i \in 1..Len(shown) |-> shown[i].addonName]

\* the last branch of run: the error is reported and run returns
UnknownCommand == Exits(0, <<Report("unknown-command", <<>>)>>)

\* CLI.run(args) on the catalog files: the options parsed and the control
\* state it leaves
run(a, files, wl) ==
    IF Len(a) = 0 THEN [options |-> NoOptions, ctl |-> Exits(0, <<Report("help", <<>>)>>)]
    ELSE IF a[1] = CmdShow
    THEN [options |-> NoOptions,
          ctl |-> Exits(0, <<Report("show", ShownAddons(a, files))>>)]
    ELSE IF a[1] = CmdList
    THEN [options |-> NoOptions,
          ctl |-> Exits(0, <<Report("list", addonGroups(files))>>)]
    ELSE IF a[1] = CmdWhitelist
    THEN [options |-> NoOptions, ctl |-> Exits(0, <<Report("whitelist", wl)>>)]
    ELSE IF a[1] = CmdConfig
    THEN [options |-> NoOptions, ctl |-> Exits(0, <<Report("config", wl)>>)]
    ELSE IF a[1] = CmdBump
    THEN LET parsed == parseBumpArgs(Tail(a), files)
         IN IF parsed.threw THEN [options |-> NoOptions, ctl |-> Caught]
            ELSE [options |-> parsed.options,
                  ctl |-> bumpVersion(parsed.options, files)]
    ELSE [options |-> NoOptions, ctl |-> UnknownCommand]

\* the command line is a bump with the dry-run flag
IsDryBump(a) == Len(a) >= 1 /\ a[1] = CmdBump /\ Includes(Tail(a), FlagDry)

\* main(): new CLI(verbose) loads the configuration and scans the addons
\* directory (Deno.exit(1) when the root cannot be read), then run(Deno.args).
\* A bump with --verbose builds a second VersionBumper, which scans the same
\* files again.
Main(a) ==
    /\ pc.phase = "off"
    /\ runs' = runs + 1
    /\ args' = a
    /\ writeLog' = <<>>
    /\ gitLog' = <<>>
    /\ faults' = 0
    /\ dryOnly' = (dryOnly /\ IsDryBump(a))
    /\ IF ~rootReadable
       THEN /\ tocFiles' = <<>>
            /\ options' = NoOptions
            /\ pc' = Off
            /\ ver' = None
            /\ exitCode' = 1
            /\ calls' = <<>>
            /\ out' = <<Report("error-root", <<>>)>>
       ELSE LET files == loadAllTocFiles(whitelist, disk)
                r == run(a, files, whitelist)
            IN /\ tocFiles' = files
               /\ options' = r.options
               /\ pc' = r.ctl.pc
               /\ ver' = r.ctl.ver
               /\ exitCode' = r.ctl.exit
               /\ calls' = r.ctl.calls
               /\ out' = r.ctl.out
    /\ UNCHANGED <<disk, committed, tags, whitelist, rootReadable, disk0, vm, rw>>

(***************************************************************************)
(* VersionBumper.updateFiles: one turn of its loop.                        *)
(***************************************************************************)
\* how a write or a command may end: TRUE it succeeds, FALSE it fails
Outcomes == IF faults < MaxFaults THEN BOOLEAN ELSE {TRUE}

\* an updateFiles that writes in a dry run too
updateFilesWritesIgnoringDry(opts) == TRUE

\* the else branch of `if (options.dryRun)`: the file is written
updateFilesWrites(opts) == ~opts.dryRun

\* the files of the updateFiles call at pc
CurrentName == Groups(options, tocFiles)[pc.gi]
CurrentFiles == getTocFilesForAddon(tocFiles, CurrentName)

\* what follows the file at pc: the next file, the next group, the tag loop
AfterFile ==
    IF pc.fi < Len(CurrentFiles) THEN Goes(At("update", pc.gi, pc.fi + 1), ver, <<>>)
    ELSE StartUpdate(pc.gi + 1, options, tocFiles)

\* a loop that a failed write leaves through run's catch
AfterWriteAborting(ok) == IF ok THEN AfterFile ELSE Caught

\* after Deno.writeTextFileSync: the catch block reports a failure and the
\* loop goes on as after a success
AfterWrite(ok) == AfterFile

UpdateFile ==
    /\ pc.phase = "update"
    /\ LET file == CurrentFiles[pc.fi]
           newContent == updateVersionInContent(file.content, ver)
       IN IF updateFilesWrites(options)
          THEN \E ok \in Outcomes :
                  LET ctl == AfterWrite(ok)
                  IN /\ faults' = IF ok THEN faults ELSE faults + 1
                     /\ writeLog' = Append(writeLog,
                                       [path |-> file.path, content |-> newContent, ok |-> ok])
                     /\ disk' = IF ok THEN [disk EXCEPT ![file.path] = newContent] ELSE disk
                     /\ out' = out \o <<Report(IF ok THEN "updated" ELSE "update-failed",
                                               <<file.path[1], file.version, ver>>)>> \o ctl.out
                     /\ pc' = ctl.pc
                     /\ ver' = ctl.ver
                     /\ exitCode' = ctl.exit
                     /\ calls' = calls \o ctl.calls
          ELSE LET ctl == AfterFile
               IN /\ writeLog' = writeLog
                  /\ faults' = faults
                  /\ disk' = disk
                  /\ out' = out \o <<Report("would-update",
                                            <<file.path[1], file.version, ver>>)>> \o ctl.out
                  /\ pc' = ctl.pc
                  /\ ver' = ctl.ver
                  /\ exitCode' = ctl.exit
                  /\ calls' = calls \o ctl.calls
    /\ UNCHANGED <<committed, tags, whitelist, rootReadable, runs, args, tocFiles,
                   options, gitLog, disk0, dryOnly, vm, rw>>

(***************************************************************************)
(* GitManager.createGitTag, one runCommandInDir call at a time.  A command *)
(* may exit with a non-zero status whenever it runs; git tag does when the *)
(* tag exists.                                                             *)
(***************************************************************************)
AddonsDirectory == <<".", "/", "a", "d", "d", "o", "n", "s">>
ProcessCwd == <<".">>

\* a recorder that runs every command in the directory of the process
workingDirOfProcess(targetAddon) == ProcessCwd

\* workingDir in createGitTag
workingDir(targetAddon) ==
    IF targetAddon # None THEN AddonsDirectory \o <<"/">> \o targetAddon
    ELSE ProcessCwd

\* a status query that always finds pending changes
DirtyAlways(name) == TRUE

\* git status --porcelain prints something in the repository of addon name
Dirty(name) == \E p \in Paths : p[1] = name /\ disk[p] # committed[p]

\* HEAD of the repository of addon name after git add . and git commit
CommitOf(name) ==
    [p \in Paths |-> IF p[1] = name THEN disk[p] ELSE committed[p]]

\* the arguments of the createGitTag call that runs
CurrentCall == calls[Len(calls)]

\* commitMessage || the generated message
CommitMessage ==
    IF CurrentCall.commitMessage # None THEN CurrentCall.commitMessage
    ELSE BumpMessage(CurrentCall.targetAddon, CurrentCall.version)

GitEntry(cmd, arg, ok) ==
    [cmd |-> cmd, arg |-> arg, cwd |-> workingDir(CurrentCall.targetAddon), ok |-> ok]

\* a createGitTag that lets the error of a command reach run's catch
GitFailedCrashes == Caught

\* a failure after which the caller records no further addon
GitFailedEndsLoop == Exits(0, <<Report("git-failed", <<CurrentCall.targetAddon>>)>>)

\* the catch block of createGitTag, then the caller's next createGitTag
GitFailed == 
    LET ctl == StartTag(pc.gi + 1, options, tocFiles)
    IN [ctl EXCEPT !.out = <<Report("git-failed", <<CurrentCall.targetAddon>>)>> \o ctl.out]

\* the end of the try block, then the caller's next createGitTag
GitCompleted == 
    LET ctl == StartTag(pc.gi + 1, options, tocFiles)
    IN [ctl EXCEPT !.out = <<Report("completed", <<CurrentCall.version>>)>> \o ctl.out]

\* one command ran: log it and move on
GitStep(entry, ctl) ==
    /\ gitLog' = Append(gitLog, entry)
    /\ faults' = IF entry.ok THEN faults ELSE faults + 1
    /\ pc' = ctl.pc
    /\ ver' = ctl.ver
    /\ exitCode' = ctl.exit
    /\ calls' = calls \o ctl.calls
    /\ out' = out \o ctl.out
    /\ UNCHANGED <<disk, whitelist, rootReadable, runs, args, tocFiles, options,
                   writeLog, disk0, dryOnly, vm, rw>>

\* the dry run of createGitTag: three reports, no command
CreateGitTagDry ==
    /\ pc.phase = "drytag"
    /\ LET ctl == StartTag(pc.gi + 1, options, tocFiles)
       IN /\ pc' = ctl.pc
          /\ ver' = ctl.ver
          /\ exitCode' = ctl.exit
          /\ calls' = calls \o ctl.calls
          /\ out' = out \o <<Report("would-tag", <<CurrentCall.version>>),
                             Report("would-commit", <<CommitMessage>>),
                             Report("would-push", <<>>)>> \o ctl.out
    /\ UNCHANGED <<disk, committed, tags, whitelist, rootReadable, runs, args,
                   tocFiles, options, writeLog, gitLog, faults, disk0, dryOnly, vm, rw>>

GitStatus ==
    /\ pc.phase = "status"
    /\ \E ok \in Outcomes :
          GitStep(GitEntry("status", None, ok),
                  IF ~ok THEN GitFailed
                  ELSE IF Dirty(CurrentCall.targetAddon) THEN Goes(At("add", pc.gi, 0), ver, <<>>)
                  ELSE Goes(At("tag", pc.gi, 0), ver, <<>>))
    /\ UNCHANGED <<committed, tags>>

GitAdd ==
    /\ pc.phase = "add"
    /\ \E ok \in Outcomes :
          GitStep(GitEntry("add", None, ok),
                  IF ok THEN Goes(At("commit", pc.gi, 0), ver, <<>>) ELSE GitFailed)
    /\ UNCHANGED <<committed, tags>>

GitCommit ==
    /\ pc.phase = "commit"
    /\ \E ok \in Outcomes :
          /\ GitStep(GitEntry("commit", CommitMessage, ok),
                     IF ok THEN Goes(At("tag", pc.gi, 0), ver, <<>>) ELSE GitFailed)
          /\ committed' = IF ok THEN CommitOf(CurrentCall.targetAddon) ELSE committed
    /\ UNCHANGED tags

GitTag ==
    /\ pc.phase = "tag"
    /\ \E ok \in (IF CurrentCall.version \in tags[CurrentCall.targetAddon] THEN {FALSE} ELSE Outcomes) :
          /\ GitStep(GitEntry("tag", CurrentCall.version, ok),
                     IF ok THEN Goes(At("push", pc.gi, 0), ver, <<>>) ELSE GitFailed)
          /\ tags' = IF ok THEN [tags EXCEPT ![CurrentCall.targetAddon] = @ \cup {CurrentCall.version}] ELSE tags
    /\ UNCHANGED committed

GitPush ==
    /\ pc.phase = "push"
    /\ \E ok \in Outcomes :
          GitStep(GitEntry("push", CurrentCall.version, ok), IF ok THEN GitCompleted ELSE GitFailed)
    /\ UNCHANGED <<committed, tags>>

(***************************************************************************)
(* The behaviours: the files the program may find, the command lines it    *)
(* may be given.                                                           *)
(***************************************************************************)
AddonNames == {Alpha, Beta, Gamma}

\* the files of the addons directory, with the versions of two of them left open
DiskWith(vAC, vB) ==
    [p \in Paths |->
        IF p = <<Alpha, FileA>> THEN TocContent(V142)
        ELSE IF p = <<Alpha, FileAC>> THEN TocContent(vAC)
        ELSE IF p = <<Beta, FileB>> THEN TocContent(vB)
        ELSE IF p = <<Gamma, FileG>> THEN TocContent(V123)
        ELSE NoVersionContent]

\* Alpha consistent or not; the version of Beta three integers or not
Disks == { DiskWith(V142, V210), DiskWith(V1100, V210), DiskWith(V1100, V21) }

\* the whitelist of config.json, and the default when the file is missing
Whitelists == { <<Alpha, Beta>>, <<>> }

SeqsUpTo(S, n) == UNION { [1..k -> S] : k \in 0..n }

\* the words that may follow bump
BumpWords ==
    {V200, WordAll, Alpha, Beta, Gamma, FlagMajor, FlagMinor, FlagDry, FlagVerbose}

CommandLines ==
    { <<>>, <<CmdShow>>, <<CmdShow, Alpha>>, <<CmdShow, Gamma>>, <<CmdList>>,
      <<CmdWhitelist>>, <<CmdConfig>>, <<CmdUnknown>>, <<CmdList, FlagVerbose>>,
      <<FlagVerbose>> }
    \cup { <<CmdBump>> \o b : b \in SeqsUpTo(BumpWords, MaxArgs) }

NoRewrite == [content |-> <<>>, versions |-> <<>>, result |-> <<>>]

NoCall == [called |-> FALSE, target |-> None, bumpType |-> "patch",
           result |-> [threw |-> FALSE, value |-> None], highest |-> 0]

Init ==
    /\ disk \in Disks
    /\ committed = disk
    /\ tags = [a \in AddonNames |-> {}]
    /\ whitelist \in Whitelists
    /\ rootReadable \in BOOLEAN
    /\ runs = 0
    /\ args = <<>>
    /\ tocFiles = <<>>
    /\ options = NoOptions
    /\ pc = Off
    /\ ver = None
    /\ writeLog = <<>>
    /\ gitLog = <<>>
    /\ calls = <<>>
    /\ out = <<>>
    /\ exitCode = 0
    /\ faults = 0
    /\ disk0 = disk
    /\ dryOnly = TRUE
    /\ vm = NoCall
    /\ rw = NoRewrite

\* the one process of a behaviour of Spec
Start == runs = 0 /\ \E a \in CommandLines : Main(a)

Next ==
    \/ Start
    \/ UpdateFile
    \/ CreateGitTagDry
    \/ GitStatus
    \/ GitAdd
    \/ GitCommit
    \/ GitTag
    \/ GitPush

Spec == Init /\ [][Next]_vars

(***************************************************************************)
(* Processes one after another on the same files: SpecRuns.                *)
(***************************************************************************)
RunWords == {V200, WordAll, Alpha, FlagMajor, FlagDry}

\* dry runs of each kind of bump, with a bump kind
DryLines ==
    { <<CmdBump, Alpha, FlagMajor, FlagDry>>, <<CmdBump, WordAll, FlagMinor, FlagDry>>,
      <<CmdBump, V200, Alpha, FlagDry>>, <<CmdBump, FlagDry, V200, FlagMajor>> }

RunCommandLines ==
    { <<CmdList>>, <<CmdUnknown>> }
    \cup { <<CmdBump>> \o b : b \in SeqsUpTo(RunWords, MaxRunArgs) }
    \cup DryLines

\* the user starts the program again once the process before has ended; the
\* behaviours are the dry runs in a row, and what may come after them
Restart == runs < MaxRuns /\ dryOnly /\ \E a \in RunCommandLines : Main(a)

NextRuns ==
    \/ Restart
    \/ UpdateFile
    \/ CreateGitTagDry
    \/ GitStatus
    \/ GitAdd
    \/ GitCommit
    \/ GitTag
    \/ GitPush

InitRuns ==
    /\ Init
    /\ disk = DiskWith(V1100, V210)
    /\ rootReadable
    /\ whitelist = <<Alpha, Beta>>

SpecRuns == InitRuns /\ [][NextRuns]_vars

(***************************************************************************)
(* getNextVersion on its own, on every small catalog: SpecVersion.         *)
(***************************************************************************)
VersionPool == {V123, V1100, V120, V12, VAt}

CatalogRecord(name, v) ==
    [path |-> <<name, FileA>>, content |-> TocContent(v), version |-> v,
     addonName |-> name]

\* Alpha with every kind of version, Beta with two
Catalogs ==
    SeqsUpTo({ CatalogRecord(Alpha, v) : v \in VersionPool }
             \cup { CatalogRecord(Beta, v) : v \in {V123, V1100} },
             MaxRecords)

\* the position, among the files getNextVersion looks at, of the entry its
\* reduce returns; 0 when it returns before the reduce
highestOf(files, targetAddon) ==
    LET check == filesToCheck(files, targetAddon)
    IN IF Len(files) = 0 \/ Len(check) = 0 THEN 0
       ELSE HighestIndex([i \in 1..Len(check) |-> VersionEntry(check[i])])

CallGetNextVersion(targetAddon, bumpType) ==
    /\ pc.phase = "version"
    /\ ~vm.called
    /\ vm' = [called |-> TRUE, target |-> targetAddon, bumpType |-> bumpType,
              result |-> getNextVersion(tocFiles, targetAddon, bumpType),
              highest |-> highestOf(tocFiles, targetAddon)]
    /\ UNCHANGED <<disk, committed, tags, whitelist, rootReadable, runs, args,
                   tocFiles, options, pc, ver, writeLog, gitLog, calls, out,
                   exitCode, faults, disk0, dryOnly, rw>>

InitVersion ==
    /\ disk = DiskWith(V142, V210)
    /\ committed = disk
    /\ tags = [a \in AddonNames |-> {}]
    /\ whitelist = <<Alpha, Beta>>
    /\ rootReadable = TRUE
    /\ runs = 0
    /\ args = <<>>
    /\ tocFiles \in Catalogs
    /\ options = NoOptions
    /\ pc = At("version", 0, 0)
    /\ ver = None
    /\ writeLog = <<>>
    /\ gitLog = <<>>
    /\ calls = <<>>
    /\ out = <<>>
    /\ exitCode = 0
    /\ faults = 0
    /\ disk0 = disk
    /\ dryOnly = TRUE
    /\ vm = NoCall
    /\ rw = NoRewrite

NextVersion ==
    \E t \in {None, Alpha, Beta}, b \in {"major", "minor", "patch"} :
        CallGetNextVersion(t, b)

SpecVersion == InitVersion /\ [][NextVersion]_vars

(***************************************************************************)
(* updateVersionInContent on its own: a content of the pool below is       *)
(* rewritten up to MaxRewrites times, each time with a version of the      *)
(* pool, the way successive bumps rewrite one file.                        *)
(***************************************************************************)
CRLF == <<"\r", "\n">>
Line(text, eol) == [text |-> text, eol |-> eol]

Contents ==
    { TocContent(V123),
      NoVersionContent,
      <<>>,
      <<VersionLine(V123), VersionLine(V142)>>,
      <<Line(TitleLine.text, CRLF), Line(VersionPrefix \o V123, CRLF),
        Line(VersionPrefix \o V142, CRLF)>>,
      <<TitleLine, Line(VersionPrefix \o V123, <<>>)>>,
      <<Line(VersionPrefix, LF), VersionLine(V142), VersionLine(V123)>>,
      <<Line(<<" ">> \o VersionPrefix \o V123, LF), VersionLine(V142)>>,
      <<Line(VersionPrefix \o VAt, <<"\r">>), Line(VersionPrefix \o V12, LF)>> }

VCapture == <<"$", "1">>
VMatched == <<"$", "&">>
VDollar == <<"$", "$">>
RewriteVersions == {V200, V123, None, VCapture, VMatched, VDollar}

CallUpdateVersionInContent(newVersion) ==
    /\ pc.phase = "content"
    /\ Len(rw.versions) < MaxRewrites
    /\ rw' = [rw EXCEPT !.versions = Append(@, newVersion),
                        !.result = updateVersionInContent(@, newVersion)]
    /\ UNCHANGED <<disk, committed, tags, whitelist, rootReadable, runs, args,
                   tocFiles, options, pc, ver, writeLog, gitLog, calls, out,
                   exitCode, faults, disk0, dryOnly, vm>>

InitContent ==
    /\ disk = DiskWith(V142, V210)
    /\ committed = disk
    /\ tags = [a \in AddonNames |-> {}]
    /\ whitelist = <<Alpha, Beta>>
    /\ rootReadable = TRUE
    /\ runs = 0
    /\ args = <<>>
    /\ tocFiles = <<>>
    /\ options = NoOptions
    /\ pc = At("content", 0, 0)
    /\ ver = None
    /\ writeLog = <<>>
    /\ gitLog = <<>>
    /\ calls = <<>>
    /\ out = <<>>
    /\ exitCode = 0
    /\ faults = 0
    /\ disk0 = disk
    /\ dryOnly = TRUE
    /\ vm = NoCall
    /\ \E c \in Contents : rw = [content |-> c, versions |-> <<>>, result |-> c]

NextContent == \E v \in RewriteVersions : CallUpdateVersionInContent(v)

SpecContent == InitContent /\ [][NextContent]_vars

(***************************************************************************)
(* What the claims speak of, stated apart from the operators above.        *)
(***************************************************************************)
\* a < b on (major, minor, patch), numerically, in that priority
TupleLess(a, b) ==
    \/ a.major < b.major
    \/ a.major = b.major /\ a.minor < b.minor
    \/ a.major = b.major /\ a.minor = b.minor /\ a.patch < b.patch

\* three runs of digits, none with a leading zero
WellFormedVersion(v) ==
    /\ IsVersionString(v)
    /\ \A i \in 1..3 : LET part == SplitDots(v)[i] IN Len(part) = 1 \/ part[1] # "0"

\* the three numbers a version string shows
ShownTuple(v) ==
    LET parts == SplitDots(v)
    IN [major |-> DigitsValue(parts[1]), minor |-> DigitsValue(parts[2]),
        patch |-> DigitsValue(parts[3])]

\* the tuple a record counts for: the numbers its version shows, and for a
\* version that is not three integers what the scan makes of it
TupleOf(file) ==
    IF WellFormedVersion(file.version) THEN ShownTuple(file.version)
    ELSE VersionEntry(file)

\* record i is a maximum of the files
IsMaxAt(files, i) ==
    \A j \in 1..Len(files) : ~TupleLess(TupleOf(files[i]), TupleOf(files[j]))

\* the first record in scan order that is a maximum
FirstMax(files) ==
    CHOOSE i \in 1..Len(files) :
        IsMaxAt(files, i) /\ \A j \in 1..(i - 1) : ~IsMaxAt(files, j)

\* the successor of (major, minor, patch) under a bump kind
Successor(t, kind) ==
    IF kind = "major" THEN [major |-> t.major + 1, minor |-> 0, patch |-> 0]
    ELSE IF kind = "minor" THEN [major |-> t.major, minor |-> t.minor + 1, patch |-> 0]
    ELSE [major |-> t.major, minor |-> t.minor, patch |-> t.patch + 1]

\* v is the version after the highest of the files, under the bump kind
IsNextOf(v, files, kind) ==
    /\ Len(files) > 0
    /\ WellFormedVersion(v)
    /\ WellFormedVersion(files[FirstMax(files)].version)
    /\ ShownTuple(v) = Successor(ShownTuple(files[FirstMax(files)].version), kind)

\* the records of one addon, picked by name
RecordsOf(name) == SelectSeq(tocFiles, LAMBDA f : f.addonName = name)

CatalogNames == { tocFiles[i].addonName : i \in 1..Len(tocFiles) }

\* the subdirectory of an addon
SubdirOf(name) == <<".", "/", "a", "d", "d", "o", "n", "s", "/">> \o name

IsFlag(w) == Len(w) >= 2 /\ w[1] = "-" /\ w[2] = "-"

Count(log, Test(_)) == Len(SelectSeq(log, Test))

Reported(kind) == \E i \in 1..Len(out) : out[i].kind = kind

\* a process ran to its end
Ended == runs >= 1 /\ pc.phase = "off"

\* the process is a bump, and the words after bump
IsBump == runs >= 1 /\ Len(args) >= 1 /\ args[1] = CmdBump
BumpArgs == Tail(args)

\* the content differs from the original in the version line only, which shows v
RewrittenTo(content, original, v) ==
    /\ Len(content) = Len(original)
    /\ \A k \in 1..Len(content) :
          IF k = MatchIndex(original)
          THEN content[k].text = VersionPrefix \o v /\ content[k].eol = original[k].eol
          ELSE content[k] = original[k]

\* the release recorder was called once for the addon
RecordedOnce(name) == Count(calls, LAMBDA c : c.targetAddon = name) = 1

\* nothing was written and no repository changed since the first process
NothingChanged ==
    /\ disk = disk0
    /\ committed = disk0
    /\ \A name \in AddonNames : tags[name] = {}

(***************************************************************************)
(* getNextVersion: C2, C3 (SpecVersion).                                   *)
(***************************************************************************)
\* the record set the last getNextVersion call looked at
Checked == IF vm.target = None THEN tocFiles ELSE RecordsOf(vm.target)

C3_HighestIsFirstNumericMaximum ==
    (vm.called /\ Len(Checked) > 0) => vm.highest = FirstMax(Checked)

\* 1.2.3 then 1.10.0 twice: the second record was chosen
C3_Witness ==
    /\ vm.called
    /\ Len(Checked) = 3
    /\ Checked[1].version = V123
    /\ Checked[2].version = V1100
    /\ Checked[3].version = V1100
    /\ vm.highest = 2

(***************************************************************************)
(* The dry run: C1 (SpecRuns).                                             *)
(***************************************************************************)
\* C1: as long as every process so far was a bump with --dry, no file was
\* written, no version-control command ran, and every file and repository
\* is as it was before the first process.
C1_DryRunsChangeNothing ==
    (runs >= 1 /\ dryOnly)
    => /\ writeLog = <<>>
       /\ gitLog = <<>>
       /\ NothingChanged

\* the second dry run in a row ended after reporting what it would do
C1_Witness ==
    /\ runs = 2
    /\ dryOnly
    /\ Ended
    /\ Reported("would-update")
    /\ Reported("would-push")

(***************************************************************************)
(* The bump: C4 to C7 (Spec).                                              *)
(***************************************************************************)
\* writeLog[i] wrote v into the record it was made for
WroteVersion(w, v) ==
    \E i \in 1..Len(tocFiles) :
        /\ tocFiles[i].path = w.path
        /\ RewrittenTo(w.content, tocFiles[i].content, v)

\* C4 as stated: when a bump all has ended, every addon of the catalog had
\* the release recorder called once, with the version after the highest of
\* its own records, in its own subdirectory, and every file write carried
\* the version of the addon it belongs to.
C4_BumpAllPerAddon ==
    (Ended /\ IsBump /\ Len(BumpArgs) >= 1 /\ BumpArgs[1] = WordAll)
    => \A name \in CatalogNames :
          /\ RecordedOnce(name)
          /\ \A i \in 1..Len(calls) :
                calls[i].targetAddon = name
                => IsNextOf(calls[i].version, RecordsOf(name), options.bumpType)
          /\ \A i \in 1..Len(writeLog) :
                writeLog[i].path[1] = name
                => LET v == MatchedVersion(writeLog[i].content)
                   IN /\ IsNextOf(v, RecordsOf(name), options.bumpType)
                      /\ WroteVersion(writeLog[i], v)

\* C5: a bump with an explicit version V and no target, not dry, attempts one
\* write per record of the catalog, each putting V in the version line; one
\* release-recorder call per addon is made, for version V; its commands run
\* in the addon's subdirectory, and tag V exists there unless a command of
\* that call failed.
C5_ExplicitVersionForAll ==
    (/\ Ended /\ IsBump /\ Len(BumpArgs) >= 1
     /\ IsVersionString(BumpArgs[1])
     /\ options.targetAddon = None
     /\ ~options.dryRun)
    => LET V == BumpArgs[1]
       IN /\ Len(writeLog) = Len(tocFiles)
          /\ \A i \in 1..Len(writeLog) :
                /\ writeLog[i].path = tocFiles[i].path
                /\ RewrittenTo(writeLog[i].content, tocFiles[i].content, V)
                /\ writeLog[i].ok => disk[writeLog[i].path] = writeLog[i].content
          /\ Len(calls) = Cardinality(CatalogNames)
          /\ \A i \in 1..Len(calls) : calls[i].version = V /\ ~calls[i].dryRun
          /\ \A i \in 1..Len(gitLog) :
                /\ \E name \in CatalogNames : gitLog[i].cwd = SubdirOf(name)
                /\ gitLog[i].cmd = "tag" => gitLog[i].arg = V
          /\ \A name \in CatalogNames :
                /\ RecordedOnce(name)
                /\ Count(gitLog, LAMBDA g : g.cmd = "status" /\ g.cwd = SubdirOf(name)) = 1
                /\ (\A i \in 1..Len(gitLog) : gitLog[i].cwd = SubdirOf(name) => gitLog[i].ok)
                   => /\ V \in tags[name]
                      /\ Count(gitLog, LAMBDA g : g.cmd = "tag" /\ g.cwd = SubdirOf(name)) = 1

\* bump 2.0.0 with Alpha and Beta whitelisted ended with every file of both
\* at 2.0.0 and tag 2.0.0 in both repositories
C5_Witness ==
    /\ Ended
    /\ args = <<CmdBump, V200>>
    /\ whitelist = <<Alpha, Beta>>
    /\ disk[<<Alpha, FileA>>] = TocContent(V200)
    /\ disk[<<Alpha, FileAC>>] = TocContent(V200)
    /\ disk[<<Beta, FileB>>] = TocContent(V200)
    /\ V200 \in tags[Alpha]
    /\ V200 \in tags[Beta]
    /\ Len(calls) = 2

\* C6: a bump whose target is one addon A, not dry, writes only files of A,
\* leaves the files of every other addon as they were, and runs every
\* version-control command in the subdirectory of A.
C6_SingleAddonFrame ==
    (IsBump /\ options.targetAddon # None /\ ~options.dryRun)
    => LET A == options.targetAddon
       IN /\ \A i \in 1..Len(writeLog) :
                \E k \in 1..Len(tocFiles) :
                    tocFiles[k].path = writeLog[i].path /\ tocFiles[k].addonName = A
          /\ \A p \in Paths : p[1] # A => disk[p] = disk0[p]
          /\ \A i \in 1..Len(gitLog) : gitLog[i].cwd = SubdirOf(A)
          /\ \A i \in 1..Len(calls) : calls[i].targetAddon = A

\* bump Alpha --major with Alpha at 1.4.2 ended: both files of Alpha at 2.0.0,
\* tag 2.0.0 in the repository of Alpha, Beta untouched
C6_Witness ==
    /\ Ended
    /\ args = <<CmdBump, Alpha, FlagMajor>>
    /\ disk0[<<Alpha, FileAC>>] = TocContent(V142)
    /\ disk[<<Alpha, FileA>>] = TocContent(V200)
    /\ disk[<<Alpha, FileAC>>] = TocContent(V200)
    /\ tags[Alpha] = {V200}
    /\ tags[Beta] = {}
    /\ Len(gitLog) = 5

KnownCommands == {CmdShow, CmdList, CmdWhitelist, CmdConfig, CmdBump}

\* C8 as stated: a process whose first argument is not show, list,
\* whitelist, config or bump reports an error and ends with a non-zero exit
\* status.
C8_UnknownCommandExitsNonZero ==
    (Ended /\ rootReadable /\ Len(args) >= 1 /\ args[1] \notin KnownCommands)
    => Reported("unknown-command") /\ exitCode # 0

\* the sequence with its word at i moved to position j
MoveWord(s, i, j) ==
    LET without == [k \in 1..(Len(s) - 1) |-> IF k < i THEN s[k] ELSE s[k + 1]]
    IN [k \in 1..Len(s) |->
           IF k < j THEN without[k] ELSE IF k = j THEN s[i] ELSE without[k - 1]]

\* two results of parseBumpArgs are the same request
SameRequest(x, y) ==
    /\ x.threw = y.threw
    /\ ~x.threw => /\ x.options.targetAddon = y.options.targetAddon
                   /\ x.options.newVersion = y.options.newVersion
                   /\ x.options.bumpType = y.options.bumpType
                   /\ x.options.dryRun = y.options.dryRun

\* C9 as stated: moving a flag of a bump command to any other position
\* among the arguments gives the same parsed request.
C9_FlagsPositionIndependent ==
    IsBump
    => \A i \in 1..Len(BumpArgs), j \in 1..Len(BumpArgs) :
          IsFlag(BumpArgs[i])
          => SameRequest(parseBumpArgs(MoveWord(BumpArgs, i, j), tocFiles),
                         parseBumpArgs(BumpArgs, tocFiles))

(***************************************************************************)
(* The catalog: C10 (Spec).                                                *)
(***************************************************************************)
\* C10: every record of the catalog has an addonName of the whitelist, and
\* so has every record a show or list reports and every file a bump writes
\* or reports.
C10_CatalogWithinWhitelist ==
    /\ \A i \in 1..Len(tocFiles) : Includes(whitelist, tocFiles[i].addonName)
    /\ \A i \in 1..Len(writeLog) : Includes(whitelist, writeLog[i].path[1])
    /\ \A i \in 1..Len(out) :
          /\ out[i].kind \in {"show", "list"}
             => \A k \in 1..Len(out[i].data) : Includes(whitelist, out[i].data[k])
          /\ out[i].kind \in {"updated", "update-failed", "would-update"}
             => Includes(whitelist, out[i].data[1])

\* Alpha and Beta whitelisted, Gamma a directory with a versioned file:
\* list reported Alpha and Beta
C10_Witness ==
    /\ Ended
    /\ args = <<CmdList>>
    /\ whitelist = <<Alpha, Beta>>
    /\ MatchIndex(disk[<<Gamma, FileG>>]) # 0
    /\ out = <<Report("list", <<Alpha, Beta>>)>>

(***************************************************************************)
(* The exit status: C11 (Spec).                                            *)
(***************************************************************************)
\* the two fatal cases: the root cannot be read, or the words after bump do
\* not pass validation (a flag where the addon, all or the version is
\* expected; nothing in the catalog to take a version from)
FatalCase ==
    \/ ~rootReadable
    \/ IsBump /\ Len(BumpArgs) >= 1 /\ IsFlag(BumpArgs[1])
    \/ IsBump /\ Len(tocFiles) = 0

\* C11 as stated: a process ends with a non-zero exit status only in the two
\* fatal cases; a bump for an addon without records and a catalog record
\* whose version is not three integers end with exit status 0.
C11_NonZeroExitOnlyWhenFatal ==
    (Ended /\ exitCode # 0) => FatalCase

(***************************************************************************)
(* --verbose: C12 (Spec).                                                  *)
(***************************************************************************)
\* two results of run are the same outcome: the same request but for its
\* verbose field, the same reports, exit status and next step
SameOutcome(x, y) ==
    /\ [x.options EXCEPT !.verbose = FALSE] = [y.options EXCEPT !.verbose = FALSE]
    /\ x.ctl = y.ctl

\* C12 as stated: the command line of the process with --verbose added
\* after its last word has the outcome of the command line itself.
C12_VerboseKeepsOutcome ==
    (runs >= 1 /\ rootReadable /\ Len(args) >= 1 /\ args[1] \in KnownCommands)
    => SameOutcome(run(args \o <<FlagVerbose>>, tocFiles, whitelist),
                   run(args, tocFiles, whitelist))

(***************************************************************************)
(* No arguments: C13 (Spec).                                               *)
(***************************************************************************)
\* C13 as stated: a process started with no arguments displays the help
\* text and ends with exit status 0, whether or not the configuration file
\* and the root directory can be read.
C13_NoArgumentsShowsHelp ==
    (Ended /\ args = <<>>) => Reported("help") /\ exitCode = 0

(***************************************************************************)
(* One release-recorder call: C14, C15 (Spec).                             *)
(***************************************************************************)
\* the commands of the call made for an addon: in a process of Spec an addon
\* is recorded at most once, and its commands are those run in its
\* subdirectory
CallLog(name) == SelectSeq(gitLog, LAMBDA g : g.cwd = SubdirOf(name))

\* the call made for an addon
CallFor(name) == CHOOSE c \in {calls[k] : k \in 1..Len(calls)} : c.targetAddon = name

Called(name) == \E k \in 1..Len(calls) : calls[k].targetAddon = name

\* the files of the addon differ from what its repository holds at HEAD
\* before the process
PendingChanges(name) == \E p \in Paths : p[1] = name /\ disk[p] # disk0[p]

OrderWithCommit == <<"status", "add", "commit", "tag", "push">>
OrderWithoutCommit == <<"status", "tag", "push">>

IsPrefixOf(s, t) == Len(s) <= Len(t) /\ \A k \in 1..Len(s) : s[k] = t[k]

\* C14: the commands of one call, not dry, are a prefix of status, add,
\* commit, tag, push when the tree has pending changes and of status, tag,
\* push when it has none; each command follows only successful ones; the tag
\* is named by the version alone, and the push names it.
C14_CommandsInFixedOrder ==
    \A name \in AddonNames :
        LET L == CallLog(name)
            cmds == [k \in 1..Len(L) |-> L[k].cmd]
        IN /\ Len(L) > 0 => Called(name) /\ ~CallFor(name).dryRun
           /\ \A k \in 1..(Len(L) - 1) : L[k].ok
           /\ Len(L) >= 2 =>
                 IF PendingChanges(name) THEN IsPrefixOf(cmds, OrderWithCommit)
                 ELSE IsPrefixOf(cmds, OrderWithoutCommit)
           /\ Len(L) = 1 => cmds = <<"status">>
           /\ \A k \in 1..Len(L) :
                 L[k].cmd \in {"tag", "push"} => L[k].arg = CallFor(name).version

\* bump 2.0.0 where the write to the file of Beta failed: five commands for
\* Alpha, and status, tag, push for Beta, whose tree had no pending change
C14_Witness ==
    /\ Ended
    /\ args = <<CmdBump, V200>>
    /\ [k \in 1..Len(CallLog(Alpha)) |-> CallLog(Alpha)[k].cmd] = OrderWithCommit
    /\ [k \in 1..Len(CallLog(Beta)) |-> CallLog(Beta)[k].cmd] = OrderWithoutCommit
    /\ \A k \in 1..Len(gitLog) : gitLog[k].ok
    /\ tags[Alpha] = {V200}
    /\ tags[Beta] = {V200}

\* C15: when a command of a call fails it is the last command of that call,
\* one failure message is reported for the call and none for a call whose
\* commands all succeeded, the process goes on with exit status 0, and the
\* commit and the tag made before the failure stay.
C15_FailureStopsTheCallOnly ==
    \A name \in AddonNames :
        LET L == CallLog(name)
            failed == {k \in 1..Len(L) : ~L[k].ok}
        IN /\ \A k \in failed : k = Len(L)
           /\ Count(out, LAMBDA r : r.kind = "git-failed" /\ r.data = <<name>>)
                 = Cardinality(failed)
           /\ failed # {} =>
                 /\ exitCode = 0
                 /\ ~\E k \in 1..Len(out) : out[k].kind \in {"error", "error-root"}
                 /\ (\E k \in 1..Len(L) : L[k].cmd = "commit" /\ L[k].ok)
                    => \A p \in Paths : p[1] = name => committed[p] = disk[p]
                 /\ (\E k \in 1..Len(L) : L[k].cmd = "tag" /\ L[k].ok)
                    => CallFor(name).version \in tags[name]

\* bump Alpha --major whose push failed: the commit and the tag 2.0.0 are
\* there, one failure message, exit status 0
C15_Witness ==
    /\ Ended
    /\ args = <<CmdBump, Alpha, FlagMajor>>
    /\ Len(gitLog) = 5
    /\ gitLog[5].cmd = "push" /\ ~gitLog[5].ok
    /\ committed[<<Alpha, FileA>>] = TocContent(V200)
    /\ tags[Alpha] = {V200}
    /\ Count(out, LAMBDA r : r.kind = "git-failed") = 1
    /\ ~Reported("completed")
    /\ exitCode = 0

(***************************************************************************)
(* The dry run of the release recorder: C16 (Spec).                        *)
(***************************************************************************)
\* the reports of the dry createGitTag calls, in the order they were made
HypotheticalReports ==
    SelectSeq(out, LAMBDA r : r.kind \in {"would-commit", "would-tag", "would-push"})

\* C16 as stated: every dry call reports the commit, then the tag, then the
\* push, the order in which the call that is not dry runs them.
C16_DryReportsInExecutionOrder ==
    \A k \in 1..Len(HypotheticalReports) :
        HypotheticalReports[k].kind
            = <<"would-commit", "would-tag", "would-push">>[((k - 1) % 3) + 1]

(***************************************************************************)
(* Write failures: C17 (Spec).                                             *)
(***************************************************************************)
\* the write attempts on the files of an addon, in the order they were made
WritesOf(name) == SelectSeq(writeLog, LAMBDA w : w.path[1] = name)

\* the loop over the records of the addon is over: the process is past the
\* updates, or the last write went to another addon
UpdateOver(name) ==
    pc.phase # "update" \/ writeLog[Len(writeLog)].path[1] # name

\* C17: the write attempts on the records of an addon follow the records in
\* order, and once the loop over them is over there is one attempt per
\* record, whatever attempts failed; a failed attempt is reported, and the
\* content of a successful one stays.
C17_EveryRecordAttempted ==
    /\ \A name \in AddonNames :
          LET W == WritesOf(name)
              R == RecordsOf(name)
          IN /\ IsPrefixOf([k \in 1..Len(W) |-> W[k].path], [k \in 1..Len(R) |-> R[k].path])
             /\ (W # <<>> /\ UpdateOver(name)) => Len(W) = Len(R)
    /\ \A k \in 1..Len(writeLog) :
          writeLog[k].ok => disk[writeLog[k].path] = writeLog[k].content
    /\ Count(out, LAMBDA r : r.kind = "update-failed")
          = Count(writeLog, LAMBDA w : ~w.ok)
    /\ Count(out, LAMBDA r : r.kind = "updated") = Count(writeLog, LAMBDA w : w.ok)

\* bump 2.0.0: the first file of Alpha written, the write of the second
\* failed, the file of Beta written after it
C17_Witness ==
    /\ Ended
    /\ args = <<CmdBump, V200>>
    /\ Len(writeLog) = 3
    /\ writeLog[1].ok /\ ~writeLog[2].ok /\ writeLog[3].ok
    /\ disk[<<Alpha, FileA>>] = TocContent(V200)
    /\ disk[<<Alpha, FileAC>>] = disk0[<<Alpha, FileAC>>]
    /\ disk[<<Beta, FileB>>] = TocContent(V200)
    /\ Reported("update-failed")

(***************************************************************************)
(* A command failure in a bump of several addons: C18 (Spec).              *)
(***************************************************************************)
\* the place of an addon in the scan: the position of its first record
FirstRecord(name) ==
    CHOOSE i \in 1..Len(tocFiles) :
        tocFiles[i].addonName = name /\ \A j \in 1..(i - 1) : tocFiles[j].addonName # name

CommandFailedFor(name) == \E k \in 1..Len(CallLog(name)) : ~CallLog(name)[k].ok

\* C18: when a bump without target, not dry, has ended and a command failed
\* while an addon was recorded, the release recorder was called once for
\* every addon after it, ran its commands there, and made the tag there when
\* none of those failed.
C18_LaterAddonsStillRecorded ==
    (Ended /\ IsBump /\ options.targetAddon = None /\ ~options.dryRun)
    => \A x \in CatalogNames : CommandFailedFor(x) =>
          \A y \in CatalogNames : FirstRecord(y) > FirstRecord(x) =>
              /\ RecordedOnce(y)
              /\ Len(CallLog(y)) >= 1
              /\ CallLog(y)[1].cmd = "status"
              /\ ~CommandFailedFor(y) => CallFor(y).version \in tags[y]

\* bump all where the commit of Alpha failed: no tag for Alpha, and Beta
\* recorded after it with its tag
C18_Witness ==
    /\ Ended
    /\ args = <<CmdBump, WordAll>>
    /\ \E k \in 1..Len(CallLog(Alpha)) :
          CallLog(Alpha)[k].cmd = "commit" /\ ~CallLog(Alpha)[k].ok
    /\ tags[Alpha] = {}
    /\ Len(CallLog(Beta)) = 5
    /\ tags[Beta] = {CallFor(Beta).version}
    /\ exitCode = 0

(***************************************************************************)
(* Rewriting the version line: C19 (SpecContent).                          *)
(***************************************************************************)
IsVersionLine(line) ==
    /\ Len(line.text) > Len(VersionPrefix)
    /\ SubSeq(line.text, 1, Len(VersionPrefix)) = VersionPrefix

IsFirstVersionLine(c, k) ==
    IsVersionLine(c[k]) /\ \A j \in 1..(k - 1) : ~IsVersionLine(c[j])

UpdateReports(name) ==
    SelectSeq(out, LAMBDA r : /\ r.kind \in {"updated", "update-failed", "would-update"}
                              /\ r.data[1] = name)

\* C20: in a bump all, every call of the release recorder for an addon comes
\* after the update of that addon's files and carries the version that update
\* put (or, dry, would put) in them: the version of every write to a file of
\* the addon, the version in the commit message, and the tag that is made and
\* pushed.
C20_TagVersionIsWrittenVersion ==
    (IsBump /\ Len(BumpArgs) >= 1 /\ BumpArgs[1] = WordAll)
    => \A k \in 1..Len(calls) :
          LET c == calls[k]
              name == c.targetAddon
          IN /\ Len(UpdateReports(name)) >= 1
             /\ \A i \in 1..Len(UpdateReports(name)) :
                   UpdateReports(name)[i].data[3] = c.version
             /\ \A i \in 1..Len(writeLog) :
                   writeLog[i].path[1] = name
                   => MatchedVersion(writeLog[i].content) = c.version
             /\ c.commitMessage = StrBump \o <<" ">> \o name \o StrVersionTo \o c.version
             /\ \A i \in 1..Len(CallLog(name)) :
                   LET g == CallLog(name)[i]
                   IN /\ g.cmd \in {"tag", "push"} => g.arg = c.version
                      /\ g.cmd = "commit" => g.arg = c.commitMessage
             /\ tags[name] \subseteq {c.version}

\* bump all --minor that wrote, committed and tagged both addons
C20_Witness ==
    /\ Ended
    /\ args = <<CmdBump, WordAll, FlagMinor>>
    /\ \A name \in {Alpha, Beta} :
          \E p \in Paths :
              /\ p[1] = name
              /\ disk[p] # disk0[p]
              /\ committed[p] = disk[p]
              /\ tags[name] = {MatchedVersion(disk[p])}

(***************************************************************************)
(* bump with no word after it: C21 (Spec).                                 *)
(***************************************************************************)
\* C21 as stated: when a bump with nothing after it has ended on a catalog
\* that holds records, it did not fail; one version, the patch successor of
\* the highest version of all records, went into one write per record, and
\* the release recorder was called once per addon of the catalog with it.
C21_BareBumpCoversEveryAddon ==
    (Ended /\ args = <<CmdBump>> /\ rootReadable /\ Len(tocFiles) >= 1)
    => /\ exitCode = 0
       /\ ~Reported("error")
       /\ \E v \in {calls[k].version : k \in 1..Len(calls)} :
             /\ IsNextOf(v, tocFiles, "patch")
             /\ Len(writeLog) = Len(tocFiles)
             /\ \A i \in 1..Len(writeLog) :
                   /\ writeLog[i].path = tocFiles[i].path
                   /\ RewrittenTo(writeLog[i].content, tocFiles[i].content, v)
             /\ Len(calls) = Cardinality(CatalogNames)
             /\ \A name \in CatalogNames :
                   RecordedOnce(name) /\ CallFor(name).version = v

=============================================================================
